---- MODULE Spec2Model ----
(***************************************************************************)
(* Model of the resumable crawl of src/scraper.py:                         *)
(* BusinessListScraper.scrape (the location/page loop, the per-page batch  *)
(* of detail fetches in a thread pool, the checkpoints), main (load of the *)
(* checkpoint, removal of the checkpoint file) and the helpers they call.  *)
(*                                                                         *)
(* A detail URL is <<variant, key>>: key is what follows "/company/" in    *)
(* the URL, variant tells two spellings of the part before it apart.       *)
(* An employee-range text is a sequence of tokens: a number >= 0 is one    *)
(* run of digits, Dash and Word stand for the text between the numbers.    *)
(* The site is free at every fetch: a listing page carries any list of     *)
(* links, a detail page gives any outcome of scrape_one. The process can   *)
(* be killed at any step of scrape() and is then started again with        *)
(* --resume. Sleeps, prints and the counter total_scraped (printed only)   *)
(* are left out.                                                           *)
(***************************************************************************)
EXTENDS Integers, Sequences, FiniteSets, TLC

\* ------------------------------------------------------------------ bounds
NumLocations == 2
NumKeys == 2
MaxListing == 2
MaxPage == 5
MaxTarget == 2
MaxRuns == 2
PoolBatch == 7
MaxTokens == 3
MaxWords == 3
MaxBlocks == 2
MaxIds == 2

\* ------------------------------------------------------- program constants
CheckpointEveryRecords == 20
CheckpointEveryPages == 5
\* Mutant of EmptyPagesToLeave: the first empty page ends the location.
EmptyPagesToLeaveOne == 2 - 1
\* Mutant of EmptyPagesToLeave: one more empty page is waited for.
EmptyPagesToLeaveThree == 2 + 1
EmptyPagesToLeave == 2
MaxWorkers == 5
DefaultWorkers == 3
FirstPage == 1
MaxAttempts == 4
ApiAttempts == 4
RangeLo == 10
RangeHi == 500

Unbound == -1
Dash == -1
Word == -2

Keys == 1..NumKeys
Variants == {"www", "alt"}
URLs == Variants \X Keys

\* Mutant of Min: the requested value is taken as it is.
MinFirst(a, b) == a

\* min(args.workers, 5)
Min(a, b) == IF a <= b THEN a ELSE b

\* The values of --workers tried.
WorkerRequests == {1, DefaultWorkers}

\* The key of a detail URL: url.split("/company/")[-1].
DedupKey(url) == url[2]

\* ------------------------------------------------------ name/field helpers
\* Mutant of VALID_EMPLOYEE_RANGES: a literal without a digit is listed.
RangesWithWord == { <<Word>>, <<10, Dash, 50>>, <<50, Dash, 200>> }

VALID_EMPLOYEE_RANGES ==
  { <<1, Dash, 10>>, <<2, Dash, 10>>, <<5, Dash, 10>>,
    <<10, Dash, 50>>, <<11, Dash, 50>>, <<10, Dash, 20>>, <<11, Dash, 20>>,
    <<20, Dash, 50>>, <<21, Dash, 50>>,
    <<50, Dash, 100>>, <<51, Dash, 100>>, <<50, Dash, 200>>, <<51, Dash, 200>>,
    <<100, Dash, 200>>, <<101, Dash, 200>>,
    <<200, Dash, 500>>, <<201, Dash, 500>>,
    <<100, Dash, 500>>, <<101, Dash, 500>> }

IsNumber(tok) == tok >= 0

\* re.findall(r"\d+", emp_text)
FindNumbers(emp_text) == SelectSeq(emp_text, IsNumber)

\* Mutant of employee_range_matches: a range is taken when it overlaps 10-500.
employee_range_overlaps(text) ==
  LET numbers == FindNumbers(text) IN
  IF Len(numbers) >= 2 THEN numbers[1] <= RangeHi /\ numbers[2] >= RangeLo
  ELSE IF Len(numbers) = 1 THEN RangeLo <= numbers[1] /\ numbers[1] <= RangeHi
  ELSE text \in VALID_EMPLOYEE_RANGES

employee_range_matches(emp_text) ==
  LET numbers == FindNumbers(emp_text) IN
  IF Len(numbers) >= 2 THEN numbers[1] >= RangeLo /\ numbers[2] <= RangeHi
  ELSE IF Len(numbers) = 1 THEN RangeLo <= numbers[1] /\ numbers[1] <= RangeHi
  ELSE emp_text \in VALID_EMPLOYEE_RANGES

\* ----------------------------------------------------------------- records
EmpTexts == { <<>>, <<20, Dash, 50>>, <<600, Dash, 900>>, <<Word>> }
FirstNames == {"", "Juan"}

\* The company name in the heading of a detail page: each page has its own.
CompanyOf(url) == DedupKey(url)
NoCompany == 0

\* What a worker hands back for one detail URL: an exception, None (the page
\* is absent), or the candidate record scrape_company built from the page.
Candidate(url, fn, er) ==
  [kind |-> "record", first_name |-> fn,
   last_name |-> IF fn = "" THEN "" ELSE "Dela Cruz",
   company |-> CompanyOf(url), email |-> "juan@acme.ph", title |-> "Manager",
   employee_range |-> er, source_url |-> url]

NoRecord(k, url) ==
  [kind |-> k, first_name |-> "", last_name |-> "", company |-> NoCompany,
   email |-> "", title |-> "", employee_range |-> <<>>, source_url |-> url]

Outcomes(url) ==
  {NoRecord("raise", url), NoRecord("none", url)}
    \cup {Candidate(url, fn, er) : fn \in FirstNames, er \in EmpTexts}

CleanRecord(record) ==
  [first_name |-> record.first_name, last_name |-> record.last_name,
   company |-> record.company, email |-> record.email, title |-> record.title]

\* Mutant of ProcessKeeps: a record without employee range is dropped.
ProcessKeepsRanged(rec) ==
  /\ rec.kind = "record"
  /\ rec.first_name # ""
  /\ rec.employee_range # <<>>
  /\ employee_range_matches(rec.employee_range)

\* _process_record: TRUE iff it returns a cleaned record (not None).
ProcessKeeps(record) ==
  /\ record.kind = "record"
  /\ record.first_name # ""
  /\ (record.employee_range # <<>> => employee_range_matches(record.employee_range))

\* ------------------------------------------------------------------- state
VARIABLES
  pc,                \* where the control thread is
  runs,              \* process runs started so far
  target,            \* args.target
  workers,           \* args.workers after min(args.workers, 5)
  disk,              \* the checkpoint file
  resume_state,      \* what main handed to scrape()
  results,           \* list of clean records
  seen_companies,    \* set of dedup keys
  start_loc_idx, start_page,
  loc_idx, page, consecutive_empty,
  new_urls,          \* the URLs submitted for the current page
  futures,           \* per submitted URL: queued / running / done, and its outcome
  yielded,           \* indices of the futures as_completed has handed out
  \* history (not in the program): what the claims speak about
  result_keys,       \* per entry of results, the dedup key of the page it came from
  dispatch_count,    \* per key, how often this process run submitted it
  cur_batch,         \* keys of the batch submitted last in this process run
  prev_early,        \* keys the abruptly stopped previous process run had submitted
                     \* in the batches before its last one
  loc_pages,         \* page numbers listed in the current visit of the location
  loc_all_empty,     \* every listing of the current visit returned no URL
  zero_new_run,      \* consecutive listings of the current visit without a new URL
  last_cursor,       \* last cursor written by this run (the loaded one before that)
  unsaved_pages,     \* non-empty listing pages of this run whose batch is complete
                     \* and that no checkpoint write has followed
  raised,            \* indices of the futures whose result() raised, this batch
  write_failed,      \* save_checkpoint raised in this process run
  \* one call of fetch_page
  fetch_pc,          \* "idle", "loop" (inside the for loop), "returned", "raised"
  attempt,           \* the loop variable of fetch_page
  fetch_log,         \* what session.get gave at each attempt so far
  slept,             \* the waits passed to time.sleep, in order
  fetch_result,      \* "pending", "document", "None" or "exception"
  \* one call of a helper function
  call_pc,           \* "idle", or the name of the function that was called
  emp_text,          \* the argument of employee_range_matches
  matches,           \* what employee_range_matches returned
  candidate,         \* the argument of _process_record
  cleaned_out,       \* what _process_record returned: <<>> for None, else <<dict>>
  \* two fresh runs against one document set
  site,              \* the documents served: listing page and detail pages
  first_run,         \* the records the first of the two runs returned
  \* one call of a name helper or of scrape_company
  name_pc,           \* "idle", or the name of the function that was called
  full_name,         \* the argument of parse_name
  parsed,            \* what parse_name returned: <<first, last>>
  soup,              \* the document scrape_company reads
  scraped,           \* the record scrape_company returned
  \* one run of a campaign-creation script
  script,            \* "none", "breakout" or "visibl"
  camp_pc,           \* where main is: "idle", "auth", "list", "create", "steps", "exited"
  tries,             \* the loop variable of the api_get / api_post under way
  sent,              \* the requests sent so far, in order
  me,                \* what the authentication GET returned
  result,            \* what the campaign-creation POST returned
  campaign_id,       \* the id read from it, 0 for none
  step_no,           \* the sequence-steps call under way
  exit_status        \* -1 while the script runs, then its exit status

prog_vars == <<pc, runs, target, workers, disk, resume_state, results, seen_companies,
               start_loc_idx, start_page, loc_idx, page, consecutive_empty,
               new_urls, futures, yielded>>
hist_vars == <<result_keys, dispatch_count, cur_batch, prev_early,
               loc_pages, loc_all_empty, zero_new_run, last_cursor, unsaved_pages,
               raised, write_failed>>
fetch_vars == <<fetch_pc, attempt, fetch_log, slept, fetch_result>>
call_vars == <<call_pc, emp_text, matches, candidate, cleaned_out>>
det_vars == <<site, first_run>>
name_vars == <<name_pc, full_name, parsed, soup, scraped>>
camp_vars == <<script, camp_pc, tries, sent, me, result, campaign_id, step_no, exit_status>>
side_vars == <<fetch_vars, call_vars, det_vars, name_vars, camp_vars>>
vars == <<prog_vars, hist_vars, fetch_vars, call_vars, det_vars, name_vars, camp_vars>>

\* Mutant of Snapshot: the seen keys are left out of the saved state.
SnapshotWithoutSeen(res, keys, seen, li, pg) ==
  [results |-> res, result_keys |-> keys, seen_companies |-> {},
   location_idx |-> li, page |-> pg]

Snapshot(res, keys, seen, li, pg) ==
  [results |-> res, result_keys |-> keys, seen_companies |-> seen,
   location_idx |-> li, page |-> pg]

NoSnapshot == Snapshot(<<>>, <<>>, {}, 0, FirstPage)

\* save_checkpoint: the file is rewritten with the state given.
save_checkpoint(state) == [file |-> "whole", state |-> state]

NoFile == [file |-> "absent", state |-> NoSnapshot]
TornFile == [file |-> "torn", state |-> NoSnapshot]

NoResume == [present |-> FALSE, state |-> NoSnapshot]

\* Mutant of load_checkpoint: a state is handed back when there is no file.
load_checkpoint_always(d) == [present |-> TRUE, state |-> d.state]

\* load_checkpoint: the parsed file, or None when there is no file.
load_checkpoint(d) ==
  IF d.file = "whole" THEN [present |-> TRUE, state |-> d.state] ELSE NoResume

ZeroCounts == [k \in Keys |-> 0]

Cursor(li, pg) == <<li, pg>>

LexLeq(a, b) == a[1] < b[1] \/ (a[1] = b[1] /\ a[2] <= b[2])

IsPrefix(s, t) == Len(s) <= Len(t) /\ SubSeq(t, 1, Len(s)) = s

\* ------------------------------------------------------------------- Init
\* No call of fetch_page is under way.
FetchIdle ==
  /\ fetch_pc = "idle"
  /\ attempt = 0
  /\ fetch_log = <<>>
  /\ slept = <<>>
  /\ fetch_result = "pending"

\* No helper function is called.
CallIdle ==
  /\ call_pc = "idle"
  /\ emp_text = <<>>
  /\ matches = FALSE
  /\ candidate = NoRecord("none", <<"www", 1>>)
  /\ cleaned_out = <<>>

\* A site without any company, and no run made yet.
NoSite == [listing |-> <<>>, detail |-> [k \in Keys |-> "none"]]
NoFirstRun == [done |-> FALSE, records |-> {}]

SiteIdle ==
  /\ site = NoSite
  /\ first_run = NoFirstRun

\* A document without any element, and the record scrape_company starts from.
NoSoup == [h1 |-> "", info |-> <<>>, pairs |-> <<>>, mailto |-> "", emails |-> <<>>,
           text_names |-> << <<>>, <<>> >>, text_range |-> <<>>]
EmptyRecord == [first_name |-> "", last_name |-> <<>>, company |-> "", email |-> "",
                title |-> "", employee_range |-> <<>>]

\* No name helper is called.
NameIdle ==
  /\ name_pc = "idle"
  /\ full_name = <<>>
  /\ parsed = <<"", <<>> >>
  /\ soup = NoSoup
  /\ scraped = EmptyRecord

\* No campaign script runs.
ScriptIdle ==
  /\ script = "none"
  /\ camp_pc = "idle"
  /\ tries = 0
  /\ sent = <<>>
  /\ me = "unset"
  /\ result = "unset"
  /\ campaign_id = 0
  /\ step_no = 0
  /\ exit_status = -1

\* The process at its start, before main parses its arguments.
CrawlInit ==
  /\ pc = "main"
  /\ runs = 0
  /\ target \in 0..MaxTarget
  /\ workers \in {Min(requested, MaxWorkers) : requested \in WorkerRequests}
  /\ disk = NoFile
  /\ resume_state = NoResume
  /\ results = <<>>
  /\ seen_companies = {}
  /\ start_loc_idx = 0
  /\ start_page = FirstPage
  /\ loc_idx = Unbound
  /\ page = Unbound
  /\ consecutive_empty = 0
  /\ new_urls = <<>>
  /\ futures = <<>>
  /\ yielded = {}
  /\ result_keys = <<>>
  /\ dispatch_count = ZeroCounts
  /\ cur_batch = {}
  /\ prev_early = {}
  /\ loc_pages = <<>>
  /\ loc_all_empty = TRUE
  /\ zero_new_run = 0
  /\ last_cursor = Cursor(0, FirstPage)
  /\ unsaved_pages = 0
  /\ raised = {}
  /\ write_failed = FALSE

Init == CrawlInit /\ FetchIdle /\ CallIdle /\ SiteIdle /\ NameIdle /\ ScriptIdle

\* The locals of a process that is not running scrape().
VolatileCleared ==
  /\ results' = <<>>
  /\ seen_companies' = {}
  /\ start_loc_idx' = 0
  /\ start_page' = FirstPage
  /\ loc_idx' = Unbound
  /\ page' = Unbound
  /\ consecutive_empty' = 0
  /\ new_urls' = <<>>
  /\ futures' = <<>>
  /\ yielded' = {}
  /\ result_keys' = <<>>
  /\ cur_batch' = {}
  /\ loc_pages' = <<>>
  /\ loc_all_empty' = TRUE
  /\ zero_new_run' = 0
  /\ unsaved_pages' = 0
  /\ raised' = {}

\* ------------------------------------------------------------------- main
\* main up to the call of scrape(), and scrape() up to its for loop. The
\* first run of the process is started with or without --resume, every later
\* one with --resume.
Main(resume) ==
  /\ pc \in {"main", "stopped", "exited"}
  /\ UNCHANGED side_vars
  /\ write_failed' = FALSE
  /\ runs < MaxRuns
  /\ runs > 0 => resume
  /\ runs' = runs + 1
  /\ UNCHANGED <<target, workers, disk>>
  /\ dispatch_count' = ZeroCounts
  /\ IF resume /\ disk.file = "torn"
     THEN \* json.load raises on a file that is no whole document
          /\ pc' = "stopped"
          /\ resume_state' = NoResume
          /\ VolatileCleared
          /\ prev_early' = {}
          /\ last_cursor' = Cursor(0, FirstPage)
     ELSE LET rs == IF resume THEN load_checkpoint(disk) ELSE NoResume IN
          /\ pc' = "for"
          /\ resume_state' = rs
          /\ results' = IF rs.present THEN rs.state.results ELSE <<>>
          /\ result_keys' = IF rs.present THEN rs.state.result_keys ELSE <<>>
          /\ seen_companies' = IF rs.present THEN rs.state.seen_companies ELSE {}
          /\ start_loc_idx' = IF rs.present THEN rs.state.location_idx ELSE 0
          /\ start_page' = IF rs.present THEN rs.state.page ELSE FirstPage
          /\ loc_idx' = Unbound
          /\ page' = Unbound
          /\ consecutive_empty' = 0
          /\ new_urls' = <<>>
          /\ futures' = <<>>
          /\ yielded' = {}
          /\ cur_batch' = {}
          /\ loc_pages' = <<>>
          /\ loc_all_empty' = TRUE
          /\ zero_new_run' = 0
          /\ unsaved_pages' = 0
          /\ raised' = {}
          /\ prev_early' = IF rs.present THEN prev_early ELSE {}
          /\ last_cursor' = IF rs.present
                            THEN Cursor(rs.state.location_idx, rs.state.page)
                            ELSE Cursor(0, FirstPage)

\* ---------------------------------------------------------------- listing
RECURSIVE AppendUnique(_, _)
\* get_listing_urls: the company links of the page in order, each URL once.
AppendUnique(hrefs, urls) ==
  IF hrefs = <<>> THEN urls
  ELSE AppendUnique(Tail(hrefs),
                    IF \E i \in 1..Len(urls) : urls[i] = Head(hrefs)
                    THEN urls ELSE Append(urls, Head(hrefs)))

\* The link lists a listing page can carry.
Hrefs == UNION {[1..n -> URLs] : n \in 0..MaxListing}

\* get_listing_urls on a page carrying the links hrefs. A page fetch_page
\* returns None for (404, retries used up) gives [], as a page without links.
get_listing_urls(hrefs) == AppendUnique(hrefs, <<>>)

RECURSIVE FilterUnseenNoMark(_, _, _)
\* Mutant of FilterUnseen: a kept key is not added to seen_companies.
FilterUnseenNoMark(company_urls, seen, acc) ==
  IF company_urls = <<>> THEN [new_urls |-> acc, seen |-> seen]
  ELSE LET url == Head(company_urls)
           key == DedupKey(url)
       IN IF key \notin seen
          THEN FilterUnseenNoMark(Tail(company_urls), seen, Append(acc, url))
          ELSE FilterUnseenNoMark(Tail(company_urls), seen, acc)

\* Mutant of FilterUnseen: seen_companies is left as it was before the page.
FilterUnseenForgets(company_urls, seen, acc) ==
  [new_urls |-> FilterUnseenNoMark(company_urls, seen, acc).new_urls, seen |-> seen]

RECURSIVE FilterUnseen(_, _, _)
\* The loop over company_urls: keep the URLs whose key is not yet seen and
\* mark each kept key as seen at once.
FilterUnseen(company_urls, seen, acc) ==
  IF company_urls = <<>> THEN [new_urls |-> acc, seen |-> seen]
  ELSE LET url == Head(company_urls)
           key == DedupKey(url)
       IN IF key \notin seen
          THEN FilterUnseen(Tail(company_urls), seen \cup {key}, Append(acc, url))
          ELSE FilterUnseen(Tail(company_urls), seen, acc)

KeysOf(urls) == {DedupKey(urls[i]) : i \in 1..Len(urls)}


\* --------------------------------------------------------------- the loops
\* Mutant of StartPageOf: every location is entered at the loaded page.
StartPageOfLoaded(li) == start_page

\* "page = start_page if loc_idx == start_loc_idx else 1"
StartPageOf(li) == IF li = start_loc_idx THEN start_page ELSE FirstPage

\* for loc_idx in range(start_loc_idx, len(LOCATIONS)): the next location,
\* or the end of the loop.
ForNext ==
  /\ pc = "for"
  /\ UNCHANGED side_vars
  /\ UNCHANGED <<raised, write_failed>>
  /\ LET next == IF loc_idx = Unbound THEN start_loc_idx ELSE loc_idx + 1 IN
     IF next < NumLocations
     THEN /\ loc_idx' = next
          /\ page' = StartPageOf(next)
          /\ consecutive_empty' = 0
          /\ pc' = "while"
          /\ loc_pages' = <<>>
          /\ loc_all_empty' = TRUE
          /\ zero_new_run' = 0
     ELSE /\ pc' = "final"
          /\ UNCHANGED <<loc_idx, page, consecutive_empty, loc_pages,
                         loc_all_empty, zero_new_run>>
  /\ UNCHANGED <<runs, target, workers, disk, resume_state, results, seen_companies,
                 start_loc_idx, start_page, new_urls, futures, yielded,
                 result_keys, dispatch_count, cur_batch, prev_early,
                 last_cursor, unsaved_pages>>

\* Mutant of WhileExit: the for loop goes on after the target is met.
WhileExitNoBreak ==
  /\ pc = "while"
  /\ UNCHANGED side_vars
  /\ Len(results) >= target
  /\ pc' = "for"
  /\ UNCHANGED <<runs, target, workers, disk, resume_state, results, seen_companies,
                 start_loc_idx, start_page, loc_idx, page, consecutive_empty,
                 new_urls, futures, yielded, hist_vars>>

\* while len(results) < target fails, then "if len(results) >= target: break".
WhileExit ==
  /\ pc = "while"
  /\ UNCHANGED side_vars
  /\ Len(results) >= target
  /\ pc' = "final"
  /\ UNCHANGED <<runs, target, workers, disk, resume_state, results, seen_companies,
                 start_loc_idx, start_page, loc_idx, page, consecutive_empty,
                 new_urls, futures, yielded, hist_vars>>

\* One pass of the while body down to the submission of the page's new URLs.
ListPage(hrefs) ==
  /\ pc = "while"
  /\ UNCHANGED side_vars
  /\ UNCHANGED write_failed
  /\ Len(results) < target
  /\ page <= MaxPage
  /\ LET company_urls == get_listing_urls(hrefs)
         f == FilterUnseen(company_urls, seen_companies, <<>>)
     IN
     /\ loc_pages' = Append(loc_pages, page)
     /\ loc_all_empty' = (loc_all_empty /\ company_urls = <<>>)
     /\ IF company_urls = <<>>
        THEN /\ consecutive_empty' = consecutive_empty + 1
             /\ zero_new_run' = zero_new_run + 1
             /\ IF consecutive_empty + 1 >= EmptyPagesToLeave
                THEN pc' = "for" /\ page' = page
                ELSE pc' = "while" /\ page' = page + 1
             /\ UNCHANGED <<seen_companies, new_urls, futures, yielded, dispatch_count,
                            cur_batch, raised>>
        ELSE /\ consecutive_empty' = 0
             /\ zero_new_run' = IF f.new_urls = <<>> THEN zero_new_run + 1 ELSE 0
             /\ seen_companies' = f.seen
             /\ new_urls' = f.new_urls
             /\ futures' = [i \in 1..Len(f.new_urls) |-> "queued"]
             /\ yielded' = {}
             /\ raised' = {}
             /\ cur_batch' = KeysOf(f.new_urls)
             /\ dispatch_count' =
                  [k \in Keys |-> dispatch_count[k]
                     + Cardinality({i \in 1..Len(f.new_urls) : DedupKey(f.new_urls[i]) = k})]
             /\ pc' = IF f.new_urls = <<>> THEN "join" ELSE "batch"
             /\ page' = page
  /\ UNCHANGED <<runs, target, workers, disk, resume_state, results,
                 start_loc_idx, start_page, loc_idx, result_keys, prev_early, last_cursor,
                 unsaved_pages>>

\* ------------------------------------------------------------ worker pool
Running == {i \in 1..Len(futures) : futures[i] = "running"}

\* A free pool thread takes the oldest queued call of scrape_one.
WorkerStart(i) ==
  /\ pc \in {"batch", "join"}
  /\ UNCHANGED side_vars
  /\ i \in 1..Len(futures)
  /\ futures[i] = "queued"
  /\ \A j \in 1..(i - 1) : futures[j] # "queued"
  /\ Cardinality(Running) < workers
  /\ futures' = [futures EXCEPT ![i] = "running"]
  /\ UNCHANGED <<pc, runs, target, workers, disk, resume_state, results, seen_companies,
                 start_loc_idx, start_page, loc_idx, page, consecutive_empty,
                 new_urls, yielded, hist_vars>>

\* Mutant of WorkerFinish: the worker marks the key of its URL itself.
WorkerFinishMarksSeen(i) ==
  /\ pc \in {"batch", "join"}
  /\ UNCHANGED side_vars
  /\ i \in 1..Len(futures)
  /\ futures[i] = "running"
  /\ futures' = [futures EXCEPT ![i] = "done"]
  /\ seen_companies' = {DedupKey(new_urls[i])}
  /\ UNCHANGED <<pc, runs, target, workers, disk, resume_state, results,
                 start_loc_idx, start_page, loc_idx, page, consecutive_empty,
                 new_urls, yielded, hist_vars>>

\* scrape_one(url) ends, by a return or by an exception.
WorkerFinish(i) ==
  /\ pc \in {"batch", "join"}
  /\ UNCHANGED side_vars
  /\ i \in 1..Len(futures)
  /\ futures[i] = "running"
  /\ futures' = [futures EXCEPT ![i] = "done"]
  /\ UNCHANGED <<pc, runs, target, workers, disk, resume_state, results, seen_companies,
                 start_loc_idx, start_page, loc_idx, page, consecutive_empty,
                 new_urls, yielded, hist_vars>>

\* Mutant of AppendResult: the list is replaced by the new record.
ReplaceResult(res, cleaned) == <<cleaned>>

\* results.append(cleaned)
AppendResult(res, cleaned) == Append(res, cleaned)

\* Mutant of BreakAfter: the whole batch is aggregated whatever the count.
BreakAfterNever(raw, res, tgt) == FALSE

\* Mutant of BreakAfter: an exception of a worker ends the loop as well.
BreakAfterRaise(raw, res, tgt) == raw.kind = "raise" \/ Len(res) >= tgt

\* The as_completed loop ends early: "except Exception: continue" skips the
\* test, "if len(results) >= target: break" makes it.
BreakAfter(raw, res, tgt) == raw.kind # "raise" /\ Len(res) >= tgt

\* Mutant of Kept: a record is made of a call that raised.
KeptDespiteRaise(raw) == raw.kind = "raise" \/ ProcessKeeps(raw)

\* "try: raw = future.result() / except Exception: continue", then
\* "cleaned = self._process_record(raw) / if cleaned:".
Kept(raw) == raw.kind # "raise" /\ ProcessKeeps(raw)

\* One pass of "for future in as_completed(futures)". raw is what
\* future.result() gives for the page of new_urls[i]: the exception of the
\* worker, None, or the candidate record.
Aggregate(i, raw) ==
  /\ pc = "batch"
  /\ UNCHANGED side_vars
  /\ UNCHANGED write_failed
  /\ i \in 1..Len(futures)
  /\ i \notin yielded
  /\ futures[i] = "done"
  /\ raw \in Outcomes(new_urls[i])
  /\ yielded' = yielded \cup {i}
  /\ raised' = IF raw.kind = "raise" THEN raised \cup {i} ELSE raised
  /\ LET keep == Kept(raw)
         res == IF keep THEN AppendResult(results, CleanRecord(raw)) ELSE results
         break == BreakAfter(raw, res, target)
     IN /\ results' = res
        /\ result_keys' = IF keep THEN Append(result_keys, DedupKey(raw.source_url))
                          ELSE result_keys
        /\ pc' = IF break \/ yielded' = 1..Len(futures) THEN "join" ELSE "batch"
  /\ UNCHANGED <<runs, target, workers, disk, resume_state, seen_companies,
                 start_loc_idx, start_page, loc_idx, page, consecutive_empty,
                 new_urls, futures, dispatch_count, cur_batch, prev_early,
                 loc_pages, loc_all_empty, zero_new_run, last_cursor, unsaved_pages>>

\* Mutant of Join: the with block is left without waiting for the calls.
JoinNoWait ==
  /\ pc = "join"
  /\ UNCHANGED side_vars
  /\ pc' = "checkpoint"
  /\ UNCHANGED <<runs, target, workers, disk, resume_state, results, seen_companies,
                 start_loc_idx, start_page, loc_idx, page, consecutive_empty,
                 new_urls, futures, yielded, hist_vars>>

\* Mutant of Join: the calls still queued are cancelled, the running ones
\* waited for.
JoinCancelsQueued ==
  /\ pc = "join"
  /\ UNCHANGED side_vars
  /\ \A i \in 1..Len(futures) : futures[i] # "running"
  /\ futures' = [i \in 1..Len(futures) |->
                   IF futures[i] = "queued" THEN "cancelled" ELSE futures[i]]
  /\ pc' = "checkpoint"
  /\ UNCHANGED <<runs, target, workers, disk, resume_state, results, seen_companies,
                 start_loc_idx, start_page, loc_idx, page, consecutive_empty,
                 new_urls, yielded, hist_vars>>

\* Leaving the with block: ThreadPoolExecutor.__exit__ waits for every call.
Join ==
  /\ pc = "join"
  /\ UNCHANGED side_vars
  /\ \A i \in 1..Len(futures) : futures[i] = "done"
  /\ pc' = "checkpoint"
  /\ UNCHANGED <<runs, target, workers, disk, resume_state, results, seen_companies,
                 start_loc_idx, start_page, loc_idx, page, consecutive_empty,
                 new_urls, futures, yielded, hist_vars>>

\* ------------------------------------------------------------ checkpoints
\* Mutant of CheckpointDue: the page number triggers no checkpoint.
CheckpointDueRecordsOnly(res, pg) == Len(res) % CheckpointEveryRecords = 0

\* "if len(results) % 20 == 0 or page % 5 == 0"
CheckpointDue(res, pg) ==
  Len(res) % CheckpointEveryRecords = 0 \/ pg % CheckpointEveryPages = 0

\* The checkpoint after a page's batch, then page += 1.
Checkpoint ==
  /\ pc = "checkpoint"
  /\ UNCHANGED side_vars
  /\ raised' = {}
  /\ UNCHANGED write_failed
  /\ IF CheckpointDue(results, page)
     THEN /\ disk' = save_checkpoint(Snapshot(results, result_keys, seen_companies,
                                              loc_idx, page))
          /\ last_cursor' = Cursor(loc_idx, page)
          /\ unsaved_pages' = 0
     ELSE /\ unsaved_pages' = unsaved_pages + 1
          /\ UNCHANGED <<disk, last_cursor>>
  /\ page' = page + 1
  /\ pc' = "while"
  \* new_urls, futures and the pool are not read again before the next page
  \* assigns them
  /\ new_urls' = <<>>
  /\ futures' = <<>>
  /\ yielded' = {}
  /\ UNCHANGED <<runs, target, workers, resume_state, results, seen_companies,
                 start_loc_idx, start_page, loc_idx, consecutive_empty,
                 result_keys, dispatch_count, cur_batch,
                 prev_early, loc_pages, loc_all_empty, zero_new_run>>

\* Mutant of FinalPage: the final checkpoint stores the page the run began at.
FinalPageAtStart == start_page

\* Mutant of FinalLoc: the final checkpoint names the last location.
FinalLocLast == NumLocations - 1

\* "loc_idx if 'loc_idx' in dir() else 0", "page if 'page' in dir() else 1"
FinalLoc == IF loc_idx = Unbound THEN 0 ELSE loc_idx
FinalPage == IF page = Unbound THEN FirstPage ELSE page

\* Mutant of Final: scrape() returns without the final checkpoint.
FinalNoWrite ==
  /\ pc = "final"
  /\ UNCHANGED side_vars
  /\ pc' = "returned"
  /\ UNCHANGED <<runs, target, workers, disk, resume_state, results, seen_companies,
                 start_loc_idx, start_page, loc_idx, page, consecutive_empty,
                 new_urls, futures, yielded, hist_vars>>

\* The final checkpoint and the return of scrape().
Final ==
  /\ pc = "final"
  /\ UNCHANGED side_vars
  /\ UNCHANGED <<raised, write_failed>>
  /\ disk' = save_checkpoint(Snapshot(results, result_keys, seen_companies,
                                      FinalLoc, FinalPage))
  /\ last_cursor' = Cursor(FinalLoc, FinalPage)
  /\ unsaved_pages' = 0
  /\ pc' = "returned"
  /\ UNCHANGED <<runs, target, workers, resume_state, results, seen_companies,
                 start_loc_idx, start_page, loc_idx, page, consecutive_empty,
                 new_urls, futures, yielded, result_keys, dispatch_count, cur_batch,
                 prev_early, loc_pages, loc_all_empty, zero_new_run>>

\* Mutant of MainFinish: the checkpoint file is removed whatever the count.
MainFinishAlwaysUnlink ==
  /\ pc = "returned"
  /\ UNCHANGED side_vars
  /\ UNCHANGED <<raised, write_failed>>
  /\ disk' = NoFile
  /\ pc' = "exited"
  /\ prev_early' = {}
  /\ UNCHANGED <<runs, target, workers, resume_state, results, seen_companies,
                 start_loc_idx, start_page, loc_idx, page, consecutive_empty,
                 new_urls, futures, yielded, result_keys, dispatch_count, cur_batch,
                 loc_pages, loc_all_empty, zero_new_run, last_cursor, unsaved_pages>>

\* main after scrape(): the checkpoint file is removed when the target is met.
MainFinish ==
  /\ pc = "returned"
  /\ UNCHANGED side_vars
  /\ UNCHANGED <<raised, write_failed>>
  /\ disk' = IF Len(results) >= target /\ disk.file # "absent" THEN NoFile ELSE disk
  /\ pc' = "exited"
  /\ prev_early' = {}
  /\ UNCHANGED <<runs, target, workers, resume_state, results, seen_companies,
                 start_loc_idx, start_page, loc_idx, page, consecutive_empty,
                 new_urls, futures, yielded, result_keys, dispatch_count, cur_batch,
                 loc_pages, loc_all_empty, zero_new_run, last_cursor, unsaved_pages>>

\* ------------------------------------------------------------ abrupt stop
InScrape == {"for", "while", "batch", "join", "checkpoint", "final", "returned"}

Writing == (pc = "checkpoint" /\ CheckpointDue(results, page)) \/ pc = "final"

\* The process is killed. Killed inside save_checkpoint, after open(.., "w")
\* truncated the file and before json.dump ended, it leaves a torn file.
\* (A kill is modelled only while another run may follow it.)
Crash(torn) ==
  /\ pc \in InScrape
  /\ UNCHANGED side_vars
  /\ UNCHANGED write_failed
  /\ runs < MaxRuns
  /\ torn => Writing
  /\ disk' = IF torn THEN TornFile ELSE disk
  /\ pc' = "stopped"
  /\ prev_early' = {k \in Keys : dispatch_count[k] > 0} \ cur_batch
  /\ VolatileCleared
  /\ UNCHANGED <<runs, target, workers, resume_state, dispatch_count, last_cursor>>

\* Mutant of WriteFails: the exception is swallowed and the run goes on.
WriteFailsSwallowed(torn) ==
  /\ pc \in {"checkpoint", "final"}
  /\ UNCHANGED side_vars
  /\ Writing
  /\ disk' = IF torn THEN TornFile ELSE disk
  /\ pc' = IF pc = "final" THEN "returned" ELSE "while"
  /\ page' = IF pc = "final" THEN page ELSE page + 1
  /\ write_failed' = TRUE
  /\ UNCHANGED <<runs, target, workers, resume_state, results, seen_companies,
                 start_loc_idx, start_page, loc_idx, consecutive_empty,
                 new_urls, futures, yielded, result_keys, dispatch_count, cur_batch,
                 prev_early, loc_pages, loc_all_empty, zero_new_run, last_cursor,
                 unsaved_pages, raised>>

\* save_checkpoint raises (mkdir, open or json.dump fails): nothing in
\* scrape() or main() handles it, the process ends. A failure after open(.., "w")
\* leaves a torn file, one before it leaves the file as it was.
WriteFails(torn) ==
  /\ pc \in {"checkpoint", "final"}
  /\ UNCHANGED side_vars
  /\ Writing
  /\ disk' = IF torn THEN TornFile ELSE disk
  /\ pc' = "stopped"
  /\ write_failed' = TRUE
  /\ prev_early' = {k \in Keys : dispatch_count[k] > 0} \ cur_batch
  /\ VolatileCleared
  /\ UNCHANGED <<runs, target, workers, resume_state, dispatch_count, last_cursor>>

Next ==
  \/ \E resume \in BOOLEAN : Main(resume)
  \/ ForNext
  \/ WhileExit
  \/ \E hrefs \in Hrefs : ListPage(hrefs)
  \/ \E i \in 1..MaxListing : WorkerStart(i)
  \/ \E i \in 1..MaxListing : WorkerFinish(i)
  \/ \E i \in 1..MaxListing, raw \in UNION {Outcomes(u) : u \in URLs} : Aggregate(i, raw)
  \/ Join
  \/ Checkpoint
  \/ Final
  \/ MainFinish
  \/ \E torn \in BOOLEAN : Crash(torn)
  \/ \E torn \in BOOLEAN : WriteFails(torn)

Spec == Init /\ [][Next]_vars

\* ------------------------------------------------------ the pool of a page
\* The values of --workers tried on a large batch.
PoolRequests == {1, DefaultWorkers, MaxWorkers, MaxWorkers + 3}

\* The URLs of a page that lists PoolBatch companies not seen before.
PoolURLs == [i \in 1..PoolBatch |-> <<"www", i>>]

\* scrape() right after "futures = {pool.submit(scrape_one, url) ...}" for
\* the first page of a fresh run, main having capped the worker count.
PoolInit ==
  /\ pc = "batch"
  /\ runs = 1
  /\ target = MaxTarget
  /\ workers \in {Min(requested, MaxWorkers) : requested \in PoolRequests}
  /\ disk = NoFile
  /\ resume_state = NoResume
  /\ results = <<>>
  /\ seen_companies = 1..PoolBatch
  /\ start_loc_idx = 0
  /\ start_page = FirstPage
  /\ loc_idx = 0
  /\ page = FirstPage
  /\ consecutive_empty = 0
  /\ new_urls = PoolURLs
  /\ futures = [i \in 1..PoolBatch |-> "queued"]
  /\ yielded = {}
  /\ result_keys = <<>>
  /\ dispatch_count = ZeroCounts
  /\ cur_batch = 1..PoolBatch
  /\ prev_early = {}
  /\ loc_pages = <<FirstPage>>
  /\ loc_all_empty = FALSE
  /\ zero_new_run = 0
  /\ last_cursor = Cursor(0, FirstPage)
  /\ unsaved_pages = 0
  /\ raised = {}
  /\ write_failed = FALSE
  /\ FetchIdle /\ CallIdle /\ SiteIdle /\ NameIdle /\ ScriptIdle

PoolNext ==
  \/ \E i \in 1..PoolBatch : WorkerStart(i)
  \/ \E i \in 1..PoolBatch : WorkerFinish(i)

\* The calls of one batch larger than the pool, under every schedule.
PoolSpec == PoolInit /\ [][PoolNext]_vars

\* ------------------------------------------------------------- fetch_page
\* What one session.get can give: a response with a status code, or an
\* exception of requests.
Statuses == {200, 304, 403, 404, 429, 500}
TransportErrors == {"ConnectionError", "Timeout"}
AttemptOutcomes ==
  [kind : {"response"}, status : Statuses, exc : {"none"}]
    \cup [kind : {"exception"}, status : {0}, exc : TransportErrors]

\* Mutant of raise_for_status: no status raises.
raise_for_status_never(status) == FALSE

\* Response.raise_for_status raises HTTPError for the statuses 400 to 599.
raise_for_status(status) == 400 <= status /\ status < 600

\* The subclasses of requests.RequestException that can come up here.
RequestException == TransportErrors \cup {"HTTPError"}

\* Mutant of Caught: the handler takes transport errors only.
CaughtTransportOnly(exc) == exc \in TransportErrors

\* "except requests.RequestException as exc"
Caught(exc) == exc \in RequestException

\* "wait = 2 ** (attempt + 1)"
Backoff(n) == 2 ^ (n + 1)

\* Mutant of NotFound: 404 is handled as the other error statuses are.
NotFoundNever(status) == FALSE

\* "if resp.status_code == 404"
NotFound(status) == status = 404

\* A caller enters fetch_page.
FetchCall ==
  /\ fetch_pc = "idle"
  /\ fetch_pc' = "loop"
  /\ attempt' = 0
  /\ UNCHANGED <<fetch_log, slept, fetch_result, prog_vars, hist_vars, call_vars, det_vars,
               name_vars, camp_vars>>

\* One pass of "for attempt in range(4)", session.get giving out.
Attempt(out) ==
  /\ fetch_pc = "loop"
  /\ attempt < MaxAttempts
  /\ fetch_log' = Append(fetch_log, out)
  /\ LET exc == IF out.kind = "exception" THEN out.exc
                ELSE IF out.status # 429 /\ ~NotFound(out.status)
                        /\ raise_for_status(out.status) THEN "HTTPError"
                ELSE "none"
     IN
     IF out.kind = "response" /\ out.status = 429
     THEN \* sleep, continue
          /\ slept' = Append(slept, Backoff(attempt))
          /\ attempt' = attempt + 1
          /\ UNCHANGED <<fetch_pc, fetch_result>>
     ELSE IF out.kind = "response" /\ NotFound(out.status)
     THEN /\ fetch_pc' = "returned"
          /\ fetch_result' = "None"
          /\ UNCHANGED <<slept, attempt>>
     ELSE IF exc = "none"
     THEN \* return BeautifulSoup(resp.text, "lxml")
          /\ fetch_pc' = "returned"
          /\ fetch_result' = "document"
          /\ UNCHANGED <<slept, attempt>>
     ELSE IF Caught(exc)
     THEN /\ slept' = Append(slept, Backoff(attempt))
          /\ attempt' = attempt + 1
          /\ UNCHANGED <<fetch_pc, fetch_result>>
     ELSE \* the exception leaves fetch_page
          /\ fetch_pc' = "raised"
          /\ fetch_result' = "exception"
          /\ UNCHANGED <<slept, attempt>>
  /\ UNCHANGED <<prog_vars, hist_vars, call_vars, det_vars,
               name_vars, camp_vars>>

\* The for loop is used up: "return None".
Exhausted ==
  /\ fetch_pc = "loop"
  /\ attempt >= MaxAttempts
  /\ fetch_pc' = "returned"
  /\ fetch_result' = "None"
  /\ UNCHANGED <<attempt, fetch_log, slept, prog_vars, hist_vars, call_vars, det_vars,
               name_vars, camp_vars>>

FetchNext ==
  \/ FetchCall
  \/ \E out \in AttemptOutcomes : Attempt(out)
  \/ Exhausted

\* One call of fetch_page under every sequence of attempt outcomes.
FetchSpec == Init /\ [][FetchNext]_vars

\* ------------------------------------------------------- helper functions
\* The tokens of an employee range text: a run of digits is its number, Dash
\* a "-", Word any run of other characters.
Tokens == {9, 10, 15, 30, 500, 501, Dash, Word}

\* The texts tried: up to MaxTokens tokens, and the texts of EmpTexts.
Texts == UNION {[1..n -> Tokens] : n \in 0..MaxTokens} \cup EmpTexts

\* The candidate records scrape_company can hand to _process_record.
Candidates ==
  {Candidate(<<"www", 1>>, fn, er) : fn \in FirstNames, er \in Texts}

\* _process_record: None (<<>>) or the cleaned dict.
process_record(rec) ==
  IF ProcessKeeps(rec) THEN <<CleanRecord(rec)>> ELSE <<>>

CallEmployeeRangeMatches(text) ==
  /\ call_pc = "idle"
  /\ call_pc' = "employee_range_matches"
  /\ emp_text' = text
  /\ matches' = employee_range_matches(text)
  /\ UNCHANGED <<candidate, cleaned_out, prog_vars, hist_vars, fetch_vars, det_vars,
               name_vars, camp_vars>>

CallProcessRecord(rec) ==
  /\ call_pc = "idle"
  /\ call_pc' = "_process_record"
  /\ candidate' = rec
  /\ cleaned_out' = process_record(rec)
  /\ UNCHANGED <<emp_text, matches, prog_vars, hist_vars, fetch_vars, det_vars,
               name_vars, camp_vars>>

CallNext ==
  \/ \E text \in Texts : CallEmployeeRangeMatches(text)
  \/ \E rec \in Candidates \cup {NoRecord("none", <<"www", 1>>)} : CallProcessRecord(rec)

\* The helpers read nothing of the process: one start state of it is enough.
CallInit == Init /\ target = 0 /\ workers = 1

\* One call of a helper function on every argument tried.
CallSpec == CallInit /\ [][CallNext]_vars

\* ------------------------------------- two fresh runs on one document set
\* What the detail page of a company holds: nothing (404), a founder name,
\* or no name.
DetailKinds == {"none", "valid", "dropped"}

\* The document sets tried: the first listing page of the first location
\* carries links, every other listing page is empty.
Sites == [listing : Hrefs, detail : [Keys -> DetailKinds]]

\* The links get_listing_urls finds on page pg of location li.
SiteListing(li, pg) == IF li = 0 /\ pg = FirstPage THEN site.listing ELSE <<>>

\* What scrape_company returns for url, a function of the document alone.
SiteOutcome(url) ==
  LET kind == site.detail[DedupKey(url)] IN
  IF kind = "none" THEN NoRecord("none", url)
  ELSE IF kind = "valid" THEN Candidate(url, "Juan", <<>>)
  ELSE Candidate(url, "", <<>>)

DetInit ==
  /\ CrawlInit /\ FetchIdle /\ CallIdle /\ NameIdle /\ ScriptIdle
  /\ site \in Sites
  /\ first_run = NoFirstRun

RecordSet(res) == {res[i] : i \in 1..Len(res)}

\* The process has exited; it is started once more, without --resume.
Again ==
  /\ pc = "exited"
  /\ ~first_run.done
  /\ first_run' = [done |-> TRUE, records |-> RecordSet(results)]
  /\ pc' = "main"
  /\ runs' = 0
  /\ VolatileCleared
  /\ prev_early' = {}
  /\ dispatch_count' = ZeroCounts
  /\ last_cursor' = Cursor(0, FirstPage)
  /\ UNCHANGED <<target, workers, disk, resume_state, write_failed, site,
                 fetch_vars, call_vars, name_vars, camp_vars>>

\* future.result() gives what scrape_company makes of the document at the URL.
SiteAggregate(i) ==
  /\ i \in 1..Len(new_urls)
  /\ Aggregate(i, SiteOutcome(new_urls[i]))

DetNext ==
  \/ Main(FALSE)
  \/ ForNext
  \/ WhileExit
  \/ ListPage(SiteListing(loc_idx, page))
  \/ \E i \in 1..MaxListing : WorkerStart(i)
  \/ \E i \in 1..MaxListing : WorkerFinish(i)
  \/ \E i \in 1..MaxListing : SiteAggregate(i)
  \/ Join
  \/ Checkpoint
  \/ Final
  \/ MainFinish
  \/ Again

\* Two fresh runs of the process, one after the other, on every document
\* set tried and under every schedule of the workers.
DetSpec == DetInit /\ [][DetNext]_vars

\* ------------------------------------------- a run on a checkpoint left behind
\* The checkpoint files an earlier run may have left, with any target it was
\* given: results without a repeated company, every key of a result in
\* seen_companies, and a cursor the loops can have written.
KeySeqs == {q \in UNION {[1..n -> Keys] : n \in 0..NumKeys} :
              \A i, j \in 1..Len(q) : q[i] = q[j] => i = j}

LoadedRecord(k) == CleanRecord(Candidate(<<"www", k>>, "Juan", <<>>))

InSeq(k, q) == \E i \in 1..Len(q) : q[i] = k

LeftBehindOf(q) ==
  {save_checkpoint(Snapshot([i \in 1..Len(q) |-> LoadedRecord(q[i])], q, seen, li, pg)) :
     seen \in {sn \in SUBSET Keys : \A k \in Keys : InSeq(k, q) => k \in sn},
     li \in 0..(NumLocations - 1), pg \in FirstPage..(FirstPage + 1)}

LeftBehind == UNION {LeftBehindOf(q) : q \in KeySeqs}

\* The process is started once, with --resume and the default workers, on no
\* file or on a file left behind.
ResumeInit ==
  /\ pc = "main"
  /\ runs = MaxRuns - 1
  /\ target \in 0..MaxTarget
  /\ workers = DefaultWorkers
  /\ disk \in {NoFile} \cup LeftBehind
  /\ resume_state = NoResume
  /\ results = <<>>
  /\ seen_companies = {}
  /\ start_loc_idx = 0
  /\ start_page = FirstPage
  /\ loc_idx = Unbound
  /\ page = Unbound
  /\ consecutive_empty = 0
  /\ new_urls = <<>>
  /\ futures = <<>>
  /\ yielded = {}
  /\ result_keys = <<>>
  /\ dispatch_count = ZeroCounts
  /\ cur_batch = {}
  /\ prev_early = {}
  /\ loc_pages = <<>>
  /\ loc_all_empty = TRUE
  /\ zero_new_run = 0
  /\ last_cursor = Cursor(0, FirstPage)
  /\ unsaved_pages = 0
  /\ raised = {}
  /\ write_failed = FALSE
  /\ FetchIdle /\ CallIdle /\ SiteIdle /\ NameIdle /\ ScriptIdle

\* The steps of that one run; it is not killed.
ResumeNext ==
  \/ Main(TRUE)
  \/ ForNext
  \/ WhileExit
  \/ \E hrefs \in Hrefs : ListPage(hrefs)
  \/ \E i \in 1..MaxListing : WorkerStart(i)
  \/ \E i \in 1..MaxListing : WorkerFinish(i)
  \/ \E i \in 1..MaxListing, raw \in UNION {Outcomes(u) : u \in URLs} : Aggregate(i, raw)
  \/ Join
  \/ Checkpoint
  \/ Final
  \/ MainFinish
  \/ \E torn \in BOOLEAN : WriteFails(torn)

ResumeSpec == ResumeInit /\ [][ResumeNext]_vars

\* ------------------------------------------------------- the name helpers
\* A text is a sequence of tokens: a word, or Sp for one whitespace
\* character. The words tried, and what the regular expressions and the
\* string tests of the helpers read of each.
Sp == " "

Words == {"Dr.", "MR", "Juan", "Cruz,", "Jr.", "Aviv", "N/A", "2nd", "J",
          "j@x.ph", "Closed"}

\* len(word)
Chars(w) ==
  CASE w = Sp -> 1
    [] w \in {"J"} -> 1
    [] w \in {"MR", "Av"} -> 2
    [] w \in {"Dr.", "Jr.", "N/A", "2nd"} -> 3
    [] w \in {"Juan", "Aviv", "Cruz"} -> 4
    [] w \in {"Cruz,"} -> 5
    [] w \in {"j@x.ph", "Closed"} -> 6

\* len(re.findall(r"[a-zA-Z]", word))
Letters(w) ==
  CASE w = Sp -> 0
    [] w \in {"J"} -> 1
    [] w \in {"MR", "Av", "Dr.", "Jr.", "N/A", "2nd"} -> 2
    [] w \in {"Juan", "Aviv", "Cruz", "Cruz,", "j@x.ph"} -> 4
    [] w \in {"Closed"} -> 6

\* word.lower()
Lower(w) ==
  CASE w = "Dr." -> "dr."
    [] w = "MR" -> "mr"
    [] w = "Juan" -> "juan"
    [] w = "Cruz," -> "cruz,"
    [] w = "Cruz" -> "cruz"
    [] w = "Jr." -> "jr."
    [] w = "Aviv" -> "aviv"
    [] w = "Av" -> "av"
    [] w = "N/A" -> "n/a"
    [] w = "J" -> "j"
    [] w = "Closed" -> "closed"
    [] OTHER -> w

HasAt(w) == w \in {"j@x.ph"}
HasUrl(w) == w \in {"www.x.ph", "http://x.ph"}
StartsWithDigit(w) == w \in {"2nd"}

\* The lowered words that begin with "closed", "temporarily" or "permanently".
StartsBadPrefix(lw) == lw \in {"closed", "temporarily", "permanently"}

\* What r",?\s*(Jr\.?|Sr\.?|III|II|IV)$", ignoring case, leaves of the last
\* word: nothing of a word that is a suffix, the head of a word that ends in
\* one, the word itself otherwise.
SuffixRest(w) ==
  CASE w = "Jr." -> ""
    [] w = "Aviv" -> "Av"
    [] OTHER -> w

\* The ",?" of that expression takes the comma that ends the word before.
Uncomma(w) == IF w = "Cruz," THEN "Cruz" ELSE w

Honorifics == {"dr", "dr.", "engr", "engr.", "atty", "atty.",
               "mr", "mr.", "mrs", "mrs.", "ms", "ms."}

bad_exact == { <<"n/a">>, <<"none">>, <<"not", Sp, "available">>, <<"tba">>, <<"tbd">>,
               <<"admin">>, <<"administrator">>, <<"management">>, <<"staff">>,
               <<"team">> }

IsWord(tok) == tok # Sp

\* len(text), from token i on
RECURSIVE CharCount(_, _)
CharCount(text, i) ==
  IF i > Len(text) THEN 0 ELSE Chars(text[i]) + CharCount(text, i + 1)

\* len(re.findall(r"[a-zA-Z]", text)), from token i on
RECURSIVE LetterCount(_, _)
LetterCount(text, i) ==
  IF i > Len(text) THEN 0 ELSE Letters(text[i]) + LetterCount(text, i + 1)

\* text.strip()
Strip(text) ==
  LET idx == {i \in 1..Len(text) : IsWord(text[i])} IN
  IF idx = {} THEN <<>>
  ELSE LET lo == CHOOSE i \in idx : \A j \in idx : i <= j
           hi == CHOOSE i \in idx : \A j \in idx : j <= i
       IN SubSeq(text, lo, hi)

\* text.split()
Split(text) == SelectSeq(text, IsWord)

\* " ".join(parts)
Join1(parts) ==
  IF parts = <<>> THEN <<>>
  ELSE [i \in 1..(2 * Len(parts) - 1) |->
          IF i % 2 = 1 THEN parts[(i + 1) \div 2] ELSE Sp]

LowerText(text) == [i \in 1..Len(text) |-> Lower(text[i])]

is_valid_name(name) ==
  LET lower == LowerText(Strip(name)) IN
  /\ name # <<>>
  /\ CharCount(name, 1) >= 2
  /\ ~\E i \in 1..Len(name) : HasAt(name[i])
  /\ ~\E i \in 1..Len(name) : HasUrl(Lower(name[i]))
  /\ lower \notin bad_exact
  /\ ~(lower # <<>> /\ StartsBadPrefix(lower[1]))
  /\ ~(Len(lower) >= 3 /\ lower[1] = "under" /\ lower[2] = Sp
         /\ lower[3] = "construction")
  /\ ~StartsWithDigit(name[1])
  /\ LetterCount(name, 1) >= 2

\* re.sub(r"\s+", " ", full_name).strip(), as its words
Collapse(text) == Split(text)

\* re.sub(r"^(Dr\.?|Engr\.?|Atty\.?|Mr\.?|Mrs\.?|Ms\.?)\s+", "", ..), ignoring case
StripPrefix(parts) ==
  IF Len(parts) >= 2 /\ Lower(parts[1]) \in Honorifics THEN Tail(parts) ELSE parts

\* re.sub(r",?\s*(Jr\.?|Sr\.?|III|II|IV)$", "", ..).strip(), ignoring case
StripSuffix(parts) ==
  IF parts = <<>> THEN <<>>
  ELSE LET n == Len(parts)
           rest == SuffixRest(parts[n])
       IN
       IF rest = parts[n] THEN parts
       ELSE IF rest # "" THEN Append(SubSeq(parts, 1, n - 1), rest)
       ELSE IF n = 1 THEN <<>>
       ELSE Append(SubSeq(parts, 1, n - 2), Uncomma(parts[n - 1]))

Stripped(text) == StripSuffix(StripPrefix(Collapse(text)))

\* Mutant of parse_name: the name is split whatever is_valid_name says.
parse_name_untested(text) ==
  LET parts == Stripped(text) IN
  IF parts = <<>> THEN <<"", <<>> >> ELSE <<parts[1], Join1(Tail(parts))>>

\* parse_name: <<first, last>>, last as a text.
parse_name(text) ==
  LET parts == Stripped(text) IN
  IF ~is_valid_name(Join1(parts)) THEN <<"", <<>> >>
  ELSE IF Len(parts) = 0 THEN <<"", <<>> >>
  ELSE IF Len(parts) = 1 THEN <<parts[1], <<>> >>
  ELSE <<parts[1], Join1(Tail(parts))>>

\* The texts tried: up to MaxWords words, with whitespace before, between
\* (one or two characters) and after them as one of Spacings says.
Spacings == {<<lead, gap, trail>> : lead \in 0..1, gap \in 1..2, trail \in 0..1}

Render(parts, lead, gap, trail) ==
  LET inner == IF parts = <<>> THEN <<>>
               ELSE [i \in 1..(Len(parts) + (Len(parts) - 1) * gap) |->
                       IF (i - 1) % (gap + 1) = 0 THEN parts[((i - 1) \div (gap + 1)) + 1]
                       ELSE Sp]
  IN [i \in 1..lead |-> Sp] \o inner \o [i \in 1..trail |-> Sp]

CallParseName(text) ==
  /\ name_pc = "idle"
  /\ name_pc' = "parse_name"
  /\ full_name' = text
  /\ parsed' = parse_name(text)
  /\ UNCHANGED <<soup, scraped, prog_vars, hist_vars, fetch_vars, call_vars, det_vars,
                 camp_vars>>

NameNext ==
  /\ name_pc = "idle"
  /\ \E n \in 0..MaxWords : \E parts \in [1..n -> Words], sp \in Spacings :
       CallParseName(Render(parts, sp[1], sp[2], sp[3]))

\* One call of parse_name on every text tried.
NameSpec == CallInit /\ [][NameNext]_vars

\* ---------------------------------------------------------- scrape_company
\* What scrape_company reads of a fetched document: the h1 text; the
\* div.info blocks and the label/value sibling pairs in document order, each
\* with the keywords its lowered label contains and its value text; the
\* mailto address; the addresses found in the raw HTML; what each of the two
\* free-text name patterns captures; what the employee pattern matches.
Keywords1 == {"manager", "contact person", "owner", "director", "principal",
              "representative", "founder", "ceo", "proprietor"}
Keywords2 == {"contact person", "manager", "owner", "director", "founder", "ceo",
              "proprietor"}

\* The if/elif chain on the label of an info block.
TitleOf(label) ==
  IF "manager" \in label THEN "Manager"
  ELSE IF "owner" \in label THEN "Owner"
  ELSE IF "director" \in label THEN "Director"
  ELSE IF "founder" \in label THEN "Founder"
  ELSE IF "ceo" \in label THEN "CEO"
  ELSE IF "proprietor" \in label THEN "Proprietor"
  ELSE "Contact Person"

\* re.sub(r"\s*-\s*[A-Z][a-zA-Z\s,]+Philippines$", "", name).strip()
StripLocation(h1) == IF h1 = "Acme - Manila, Philippines" THEN "Acme" ELSE h1

\* The addresses the regex scan passes over.
SkippedEmail(em) == em \in {"x@sentry.io", "noreply@acme.ph"}

\* Method 1: for info_div in soup.find_all("div", class_="info")
RECURSIVE Method1(_, _, _)
Method1(info, i, st) ==
  IF i > Len(info) THEN st
  ELSE LET label == info[i].label
           value == info[i].value
       IN
       IF label \cap Keywords1 # {}
       THEN Method1(info, i + 1, [st EXCEPT !.contact_name = value,
                                            !.title = TitleOf(label)])
       ELSE IF "employee" \in label
       THEN Method1(info, i + 1, [st EXCEPT !.employee_range = value])
       ELSE Method1(info, i + 1, st)

\* for dt in soup.find_all(["dt", "th", "strong", "b", "label"])
RECURSIVE Method2Loop(_, _, _)
Method2Loop(pairs, i, st) ==
  IF i > Len(pairs) THEN st
  ELSE LET label == pairs[i].label
           value == pairs[i].value
       IN
       IF label \cap Keywords2 # {}
       THEN Method2Loop(pairs, i + 1, [st EXCEPT !.contact_name = value])
       ELSE IF st.employee_range = <<>> /\ ("employee" \in label \/ "staff" \in label)
       THEN Method2Loop(pairs, i + 1, [st EXCEPT !.employee_range = value])
       ELSE Method2Loop(pairs, i + 1, st)

\* Mutant of Method2: the sibling pairs are read whatever method 1 found.
Method2Always(pairs, st) == Method2Loop(pairs, 1, st)

\* Method 2: "if not contact_name:" and the loop.
Method2(pairs, st) ==
  IF st.contact_name = <<>> THEN Method2Loop(pairs, 1, st) ELSE st

\* "for pat in patterns: m = re.search(pat, page_text); if m: ...; break"
FirstMatch(text_names) ==
  IF text_names[1] # <<>> THEN text_names[1] ELSE text_names[2]

\* Contact name fallback: "if not contact_name:" and the patterns.
Method3(text_names, st) ==
  IF st.contact_name = <<>>
  THEN [st EXCEPT !.contact_name = FirstMatch(text_names)]
  ELSE st

\* The mailto link first, else the first address of the scan that is not
\* skipped.
EmailOf(doc) ==
  IF doc.mailto # "" THEN doc.mailto
  ELSE LET ok == {i \in 1..Len(doc.emails) : ~SkippedEmail(doc.emails[i])} IN
       IF ok = {} THEN ""
       ELSE doc.emails[CHOOSE i \in ok : \A j \in ok : i <= j]

scrape_company(doc) ==
  LET st0 == [contact_name |-> <<>>, title |-> "", employee_range |-> <<>>]
      st1 == Method1(doc.info, 1, st0)
      st2 == Method2(doc.pairs, st1)
      st3 == Method3(doc.text_names, st2)
      name == IF st3.contact_name # <<>> THEN parse_name(st3.contact_name)
              ELSE <<"", <<>> >>
  IN [first_name |-> name[1],
      last_name |-> name[2],
      company |-> StripLocation(doc.h1),
      email |-> EmailOf(doc),
      title |-> st3.title,
      employee_range |-> IF st3.employee_range = <<>> THEN doc.text_range
                         ELSE st3.employee_range]

\* The documents tried.
ManagerNames == { <<>>, <<"Juan", Sp, "Cruz,", Sp, "Jr.">>, <<"N/A">> }
OwnerNames == { <<>>, <<"Dr.", Sp, "Aviv">> }
TextNames == { <<>>, <<"Juan", Sp, "Aviv">> }
RangeText == <<"20-50">>

InfoBlocks ==
  {[label |-> {"manager"}, value |-> v] : v \in ManagerNames}
    \cup {[label |-> {"owner"}, value |-> <<"MR", Sp, "Juan">>],
          [label |-> {"employee"}, value |-> RangeText]}

Pairs ==
  {[label |-> {"owner"}, value |-> v] : v \in OwnerNames}
    \cup {[label |-> {"principal"}, value |-> <<"Juan">>],
          [label |-> {"staff"}, value |-> RangeText]}

Rests ==
  { [h1 |-> "", mailto |-> "", emails |-> <<>>, text_range |-> <<>>],
    [h1 |-> "Acme - Manila, Philippines", mailto |-> "j@acme.ph",
     emails |-> <<"j@acme.ph">>, text_range |-> RangeText],
    [h1 |-> "Acme", mailto |-> "", emails |-> <<"x@sentry.io", "a@acme.ph">>,
     text_range |-> <<>>] }

Soup(r, info, pairs, t1, t2) ==
  [h1 |-> r.h1, info |-> info, pairs |-> pairs, mailto |-> r.mailto,
   emails |-> r.emails, text_names |-> <<t1, t2>>, text_range |-> r.text_range]

CallScrapeCompany(doc) ==
  /\ name_pc = "idle"
  /\ name_pc' = "scrape_company"
  /\ soup' = doc
  /\ scraped' = scrape_company(doc)
  /\ UNCHANGED <<full_name, parsed, prog_vars, hist_vars, fetch_vars, call_vars,
                 det_vars, camp_vars>>

CompanyNext ==
  /\ name_pc = "idle"
  /\ \E n \in 0..MaxBlocks, m \in 0..MaxBlocks :
       \E r \in Rests, info \in [1..n -> InfoBlocks], pairs \in [1..m -> Pairs],
          t1 \in TextNames, t2 \in {<<>>, <<"Aviv", Sp, "Juan">>} :
         CallScrapeCompany(Soup(r, info, pairs, t1, t2))

\* One call of scrape_company on every document tried.
CompanySpec == CallInit /\ [][CompanyNext]_vars

\* ------------------------------------------- the campaign-creation scripts
\* create_breakout_campaign.py and create_visibl_campaign.py: the same main
\* up to the sequence-steps calls, one in the first and three in the second.
Scripts == {"breakout", "visibl"}

StepCalls(s) == IF s = "breakout" THEN 1 ELSE 3

\* What one requests.get / requests.post gives: a status that is no success,
\* an exception of the transport, or a 2xx whose body is no JSON, an empty
\* JSON value, a non-empty JSON list, or a JSON object without or with an id.
Replies == {"429", "http_error", "transport_error", "not_json",
            "json_empty", "json_list", "json_no_id", "json_id"}

\* resp.json(): the value returned, by its shape.
JsonOf(reply) ==
  CASE reply = "json_empty" -> "empty"
    [] reply = "json_list" -> "list"
    [] reply = "json_no_id" -> "no_id"
    [] reply = "json_id" -> "id"

\* One pass of the loop of api_get: "retry" for continue or a caught
\* exception, "raise" for an exception that leaves the function, else the
\* value returned. resp.json() on a body that is no JSON raises an exception
\* that is a RequestException in some versions of requests and a plain
\* ValueError in others.
api_get(reply, caught) ==
  IF reply \in {"429", "http_error", "transport_error"} THEN "retry"
  ELSE IF reply = "not_json" THEN (IF caught THEN "retry" ELSE "raise")
  ELSE JsonOf(reply)

\* One pass of the loop of api_post: "if not resp.ok: return {}".
api_post(reply, caught) ==
  IF reply \in {"429", "transport_error"} THEN "retry"
  ELSE IF reply = "http_error" THEN "empty"
  ELSE IF reply = "not_json" THEN (IF caught THEN "retry" ELSE "raise")
  ELSE JsonOf(reply)

\* The request main makes at each place.
Request(at, id) ==
  CASE at = "auth" -> [method |-> "GET", path |-> "/users", id |-> 0]
    [] at = "list" -> [method |-> "GET", path |-> "/campaigns", id |-> 0]
    [] at = "create" -> [method |-> "POST", path |-> "/campaigns", id |-> 0]
    [] at = "steps" -> [method |-> "POST", path |-> "/campaigns/{id}/sequence-steps",
                        id |-> id]

\* Mutant of Falsy: no returned value counts as empty.
FalsyNever(v) == FALSE

\* "if not me:", "if not result:"
Falsy(v) == v = "empty"

\* sys.exit(status), or the traceback of an exception nothing catches.
Exit(status) ==
  /\ camp_pc' = "exited"
  /\ exit_status' = status
  /\ UNCHANGED <<tries, campaign_id, step_no>>

\* main is started: "if not API_KEY: sys.exit(1)".
ScriptStart(s, key_set) ==
  /\ camp_pc = "idle"
  /\ script' = s
  /\ IF key_set
     THEN camp_pc' = "auth" /\ UNCHANGED exit_status
     ELSE camp_pc' = "exited" /\ exit_status' = 1
  /\ UNCHANGED <<tries, sent, me, result, campaign_id, step_no>>
  /\ UNCHANGED <<prog_vars, hist_vars, fetch_vars, call_vars, det_vars, name_vars>>

\* One request of the api_get or api_post main is in, and, when that call
\* returns, main down to its next call or to its exit.
ApiAttempt(reply, caught, id) ==
  /\ camp_pc \in {"auth", "list", "create", "steps"}
  /\ sent' = Append(sent, Request(camp_pc, campaign_id))
  /\ LET once == IF camp_pc \in {"auth", "list"} THEN api_get(reply, caught)
                 ELSE api_post(reply, caught)
         \* "return {}" after the loop
         v == IF once = "retry" THEN "empty" ELSE once
     IN
     IF once = "retry" /\ tries + 1 < ApiAttempts
     THEN /\ tries' = tries + 1
          /\ UNCHANGED <<camp_pc, me, result, campaign_id, step_no, exit_status>>
     ELSE IF once = "raise"
     THEN Exit(1) /\ UNCHANGED <<me, result>>
     ELSE CASE camp_pc = "auth" ->
                 /\ me' = v
                 /\ UNCHANGED result
                 /\ IF Falsy(v) THEN Exit(1)
                    ELSE /\ camp_pc' = "list"
                         /\ tries' = 0
                         /\ UNCHANGED <<campaign_id, step_no, exit_status>>
            [] camp_pc = "list" ->
                 /\ camp_pc' = "create"
                 /\ tries' = 0
                 /\ UNCHANGED <<me, result, campaign_id, step_no, exit_status>>
            [] camp_pc = "create" ->
                 /\ result' = v
                 /\ UNCHANGED me
                 /\ IF Falsy(v) \/ v \in {"list", "no_id"}
                    THEN \* no result, result.get on a list, or no campaign_id
                         Exit(1)
                    ELSE /\ campaign_id' = id
                         /\ camp_pc' = "steps"
                         /\ step_no' = 1
                         /\ tries' = 0
                         /\ UNCHANGED exit_status
            [] camp_pc = "steps" ->
                 /\ UNCHANGED <<me, result, campaign_id>>
                 /\ IF step_no < StepCalls(script)
                    THEN /\ step_no' = step_no + 1
                         /\ tries' = 0
                         /\ UNCHANGED <<camp_pc, exit_status>>
                    ELSE /\ camp_pc' = "exited"
                         /\ exit_status' = 0
                         /\ UNCHANGED <<tries, step_no>>
  /\ UNCHANGED script
  /\ UNCHANGED <<prog_vars, hist_vars, fetch_vars, call_vars, det_vars, name_vars>>

CampaignNext ==
  \/ \E s \in Scripts, key_set \in BOOLEAN : ScriptStart(s, key_set)
  \/ \E reply \in Replies, caught \in BOOLEAN, id \in 1..MaxIds :
       ApiAttempt(reply, caught, id)

\* One run of either script against every course of replies.
CampaignSpec == CallInit /\ [][CampaignNext]_vars

\* ================================================================= claims
InLocation == {"while", "batch", "join", "checkpoint"}

Resumed == resume_state.present
Loaded == resume_state.state

\* C1: within one process run (fresh or resumed) every dedup key is submitted
\* to scrape_company at most once, and a key of the loaded seen_companies is
\* never submitted.
C1_DispatchedOnce ==
  \A k \in Keys :
    /\ dispatch_count[k] <= 1
    /\ (Resumed /\ k \in Loaded.seen_companies) => dispatch_count[k] = 0

\* C1 witness: a resumed run that has submitted a key and then got a listing
\* page that repeats only URLs already seen.
C1_Witness ==
  /\ Resumed
  /\ Loaded.seen_companies # {}
  /\ \E k \in Keys : dispatch_count[k] = 1
  /\ pc = "join"
  /\ new_urls = <<>>

\* C2: a run resumed from a checkpoint with N results keeps these N records,
\* in place, at the front of its result list up to its end.
C2_LoadedResultsKept ==
  (Resumed /\ pc \in InScrape \cup {"exited"}) => IsPrefix(Loaded.results, results)

\* C2 witness: a resumed run returns more records than the N >= 1 it loaded.
C2_Witness ==
  /\ Resumed
  /\ pc = "returned"
  /\ Len(Loaded.results) >= 1
  /\ Len(results) > Len(Loaded.results)

\* C3: after an abrupt stop and a resume from the checkpoint on disk, the
\* resumed run submits again no key the stopped run had submitted in a batch
\* before its last one (what is fetched twice lies in the batch in progress
\* at the stop).
C3_RefetchOnlyLastBatch ==
  Resumed => \A k \in prev_early : dispatch_count[k] = 0

NoDuplicate(keys) ==
  \A i, j \in 1..Len(keys) : keys[i] = keys[j] => i = j

\* C4: over abrupt stops and resumes the result list, in memory and in the
\* checkpoint file, never holds two records that came from the same dedup key.
C4_NoDoubleCount ==
  /\ NoDuplicate(result_keys)
  /\ NoDuplicate(disk.state.result_keys)

\* C4 witness: a resumed run holds a record of a page it fetched again, the
\* stopped run having fetched that page in a batch before its last one.
C4_Witness ==
  /\ Resumed
  /\ \E k \in prev_early :
       /\ dispatch_count[k] = 1
       /\ \E i \in 1..Len(result_keys) : result_keys[i] = k

\* C5: the orchestrator has left the location as soon as two consecutive
\* listing pages of it gave no new URL, pages listing only seen URLs included.
C5_LeftAfterTwoWithoutNew ==
  zero_new_run >= 2 => pc \notin InLocation

Listed == Len(loc_pages') = Len(loc_pages) + 1

\* C6: every run ends, whatever the site serves: each listing fetch finds a
\* key not seen before or counts one more consecutive empty page, a measure
\* the finitely many keys of the site and the limit of two empty pages bound.
C6_ListingMakesProgress ==
  [][Listed => (seen_companies' # seen_companies
                  \/ consecutive_empty' > consecutive_empty)]_vars

\* C7: in a location whose listing pages are empty from its starting page the
\* orchestrator lists the starting page and the next one, no other, submits
\* no detail URL, and has left the location after the second.
C7_EmptyLocationTwoPages ==
  (pc \in InScrape /\ loc_all_empty /\ loc_pages # <<>>) =>
     LET p0 == StartPageOf(loc_idx) IN
     /\ loc_pages \in {<<p0>>, <<p0, p0 + 1>>}
     /\ pc \notin {"batch", "join", "checkpoint"}
     /\ Len(loc_pages) = 1 => (pc = "while" /\ page = p0 + 1)
     /\ Len(loc_pages) = 2 => pc \notin InLocation

\* C7 witness: the first location was empty from its starting page, two
\* pages of it were listed, and the for loop is about to take the next one.
C7_Witness ==
  /\ pc = "for"
  /\ loc_idx = 0
  /\ loc_all_empty
  /\ Len(loc_pages) = 2
  /\ Len(results) < target

\* C8: once the result count has reached the target, the run fetches no
\* listing page any more and its location index stays where it is.
C8_NothingAfterTarget ==
  [][(pc \in InScrape /\ pc' \in InScrape /\ Len(results) >= target) =>
       (~Listed /\ (loc_idx # Unbound => loc_idx' = loc_idx))]_vars

\* C8 witness: the run returned with the target met in a location that is
\* not the last one.
C8_Witness ==
  /\ pc = "returned"
  /\ target >= 1
  /\ Len(results) = target
  /\ loc_idx + 1 < NumLocations
  /\ cur_batch # {}

AllAggregated == yielded = 1..Len(futures)

C10_CursorForward ==
  [][runs' = runs => LexLeq(last_cursor, last_cursor')]_vars

\* C10 witness: a resumed run has written a cursor beyond the one it loaded,
\* in a later location.
C10_Witness ==
  /\ Resumed
  /\ pc = "returned"
  /\ last_cursor[1] > Loaded.location_idx
  /\ Loaded.page > FirstPage

\* C11: a run resumed from a snapshot with cursor (i, p) lists no location
\* with an index below i, lists page p first in location i (the first page it
\* fetches), and page 1 first in every location after i.
C11_ResumeAtCursor ==
  (Resumed /\ pc \in InScrape /\ loc_idx # Unbound) =>
     /\ loc_idx >= Loaded.location_idx
     /\ loc_pages # <<>> =>
          loc_pages[1] = (IF loc_idx = Loaded.location_idx THEN Loaded.page
                          ELSE FirstPage)
     /\ (loc_pages = <<>> /\ loc_idx > Loaded.location_idx /\ pc \in InLocation) =>
          page = FirstPage

\* C11 witness: a run resumed at a page after the first one of the first
\* location has listed a page of the next location.
C11_Witness ==
  /\ Resumed
  /\ Loaded.page > FirstPage
  /\ loc_idx > Loaded.location_idx
  /\ loc_pages # <<>>

BatchDone == pc = "checkpoint" /\ pc' = "while"

C13_UnsavedPagesBounded ==
  unsaved_pages <= CheckpointEveryPages

\* The checkpoint file holds the state scrape() ends with.
HoldsFinalSnapshot ==
  /\ disk.file = "whole"
  /\ disk.state.results = results
  /\ disk.state.seen_companies = seen_companies
  /\ disk.state.location_idx = loc_idx
  /\ disk.state.page = page

\* C14: a run of scrape() that ends, at the target or with the locations
\* exhausted, has written the final snapshot as its last action: when it
\* returns the file holds the returned results, the final seen_companies and
\* the final cursor.
C14_FinalSnapshot ==
  pc = "returned" => (HoldsFinalSnapshot /\ unsaved_pages = 0)

\* C14 witness: scrape() returns under the target with one record, the
\* locations exhausted, its last page-batch checkpoint being an older state.
C14_Witness ==
  /\ pc = "returned"
  /\ Len(results) = 1
  /\ target = 2
  /\ loc_idx = NumLocations - 1
  /\ Cardinality(seen_companies) = 2
  /\ HoldsFinalSnapshot

\* C15: the checkpoint file is deleted only when the returned count is at
\* least the target; after a run that ends under the target the file exists
\* and holds the final snapshot.
C15_UnlinkOnlyAtTarget ==
  /\ [][(disk.file # "absent" /\ disk'.file = "absent") =>
          (pc = "returned" /\ Len(results) >= target)]_vars
  /\ []((pc = "exited" /\ Len(results) < target) => HoldsFinalSnapshot)

\* C15 witness: the process has exited under the target with one record and
\* the file is there.
C15_Witness ==
  /\ pc = "exited"
  /\ Len(results) = 1
  /\ target = 2
  /\ disk.file = "whole"

\* C16: a run asked to resume while no checkpoint file exists starts as a
\* fresh run does and raises no error: scrape() is entered with no loaded
\* state, empty results, empty seen_companies and the cursor (0, 1).
C16_ResumeWithoutFile ==
  [][(runs' = runs + 1 /\ disk.file = "absent") =>
       /\ pc' = "for"
       /\ ~resume_state'.present
       /\ results' = <<>>
       /\ seen_companies' = {}
       /\ start_loc_idx' = 0
       /\ start_page' = FirstPage
       /\ unsaved_pages' = 0 /\ dispatch_count' = ZeroCounts]_vars

\* C16 witness: the second process run, started with --resume while there
\* was no file, is in its first location at page 1 with nothing loaded.
C16_Witness ==
  /\ runs = 2
  /\ disk.file = "absent"
  /\ ~Resumed
  /\ pc = "while"
  /\ loc_idx = 0
  /\ page = FirstPage
  /\ results = <<>>
  /\ seen_companies = {}

InSeen(keys, seen) == \A i \in 1..Len(keys) : keys[i] \in seen

\* C17: in every state and in every snapshot written, seen_companies holds
\* the dedup key of every detail URL a record of results was made from.
C17_SeenCoversResults ==
  /\ InSeen(result_keys, seen_companies)
  /\ InSeen(disk.state.result_keys, disk.state.seen_companies)

\* C17 witness: a snapshot on disk and the state in memory hold one record
\* and two seen keys, one of them the key of the record.
C17_Witness ==
  /\ disk.file = "whole"
  /\ Len(disk.state.result_keys) = 1
  /\ Cardinality(disk.state.seen_companies) = 2
  /\ Len(result_keys) = 1
  /\ Cardinality(seen_companies) = 2

\* ------------------------------------------------------ claims on fetch_page
LastOutcome == fetch_log[Len(fetch_log)]

Is2xx(out) == out.kind = "response" /\ out.status \in 200..299

Is404(out) == out.kind = "response" /\ out.status = 404

BelowError(out) == out.kind = "response" /\ out.status < 400

\* The attempt failed in a way fetch_page answers by a wait and a new attempt.
Retried(out) ==
  \/ out.kind = "exception"
  \/ out.kind = "response" /\ out.status >= 400 /\ out.status # 404

\* C18 as stated: at most 4 attempts; every non-2xx status other than 404 is
\* retried, so the document returned is that of a 2xx response; None is
\* returned when the 4 attempts failed.
C18_RetryOnEveryNon2xx ==
  /\ Len(fetch_log) <= MaxAttempts
  /\ fetch_result = "document" => Is2xx(LastOutcome)
  /\ (fetch_pc = "returned" /\ Len(fetch_log) = MaxAttempts
        /\ ~Is2xx(LastOutcome)) => fetch_result = "None"

\* C18 as amended: at most 4 attempts; 429, transport errors and the other
\* statuses from 400 up except 404 are retried after a wait of 2, 4, 8, 16
\* seconds; the document is returned at the first response below 400, 2xx
\* or not; None is returned at a 404 or when the 4 attempts failed.
C18_RetryOnErrorStatuses ==
  /\ Len(fetch_log) <= MaxAttempts
  /\ \A k \in 1..(Len(fetch_log) - 1) : Retried(fetch_log[k])
  /\ fetch_pc = "loop" => (attempt = Len(fetch_log) /\ Len(slept) = attempt)
  /\ \A k \in 1..Len(slept) : slept[k] = 2 ^ k
  /\ fetch_pc = "returned" =>
       /\ fetch_log # <<>>
       /\ fetch_result = "document" <=> BelowError(LastOutcome)
       /\ fetch_result = "None" <=>
            (Is404(LastOutcome)
               \/ (Len(fetch_log) = MaxAttempts /\ Retried(LastOutcome)))

\* C18 witness: the document of a 200 is returned at the third attempt, after
\* a 429 and a 500.
C18_Witness ==
  /\ fetch_result = "document"
  /\ Len(fetch_log) = 3
  /\ fetch_log[1].status = 429
  /\ fetch_log[2].status = 500
  /\ fetch_log[3].status = 200
  /\ slept = <<2, 4>>

\* C19: an attempt that receives 404 ends fetch_page at once with None: no
\* attempt and no wait follow the 404.
C19_NotFoundReturnsAtOnce ==
  \A k \in 1..Len(fetch_log) :
    Is404(fetch_log[k]) =>
      /\ k = Len(fetch_log)
      /\ fetch_pc = "returned"
      /\ fetch_result = "None"
      /\ Len(slept) = k - 1

\* C19 witness: a 404 at the third attempt, after two attempts that were
\* retried.
C19_Witness ==
  /\ Len(fetch_log) = 3
  /\ Is404(fetch_log[3])
  /\ fetch_result = "None"
  /\ slept = <<2, 4>>

\* C20: whatever each attempt gives (2xx, 404, 429, another status, a
\* transport error), fetch_page never lets an exception out: it ends by
\* returning the document or None.
C20_NeverRaises ==
  /\ fetch_pc # "raised"
  /\ fetch_result \in {"pending", "document", "None"}
  /\ fetch_pc = "returned" => fetch_result \in {"document", "None"}
  /\ fetch_pc = "loop" => ENABLED FetchNext

\* C20 witness: None is returned after four attempts that gave a 500, a
\* connection error, a 403 and a timeout.
C20_Witness ==
  /\ fetch_pc = "returned"
  /\ fetch_result = "None"
  /\ Len(fetch_log) = MaxAttempts
  /\ fetch_log[1].status = 500
  /\ fetch_log[2].exc = "ConnectionError"
  /\ fetch_log[3].status = 403
  /\ fetch_log[4].exc = "Timeout"

\* C21: a worker call that raised adds no record for its URL, and neither
\* keeps the other results of the batch from being aggregated nor the run
\* from going on to the checkpoint and the next page.
C21_RaiseIsolated ==
  /\ [](\A i \in raised : \A j \in 1..Len(result_keys) :
           result_keys[j] # DedupKey(new_urls[i]))
  /\ [][(pc = "batch" /\ raised' # raised /\ raised' # {}) =>
          /\ results' = results
          /\ pc' = IF yielded' = 1..Len(futures) THEN "join" ELSE "batch"]_vars

\* C21 witness: in a batch of two the first result handed out raised, the
\* second one gave a record, and the run stands before the checkpoint.
C21_Witness ==
  /\ pc = "checkpoint"
  /\ Len(futures) = 2
  /\ Cardinality(raised) = 1
  /\ AllAggregated
  /\ Len(results) = 1
  /\ target = 2

\* C22: no snapshot is written, the checkpoint test and "page += 1" are not
\* reached and no listing page is fetched while a call of the page's batch is
\* queued or running, also when the loop over the completed results was left
\* early.
C22_JoinedBeforeAdvance ==
  [][(Listed \/ BatchDone \/ (disk' # disk /\ pc' # "stopped")) =>
       \A i \in 1..Len(futures) : futures[i] = "done"]_vars

\* C22 witness: the loop over the results was left early with the other call
\* not yet started, and the checkpoint is reached with both calls done.
C22_Witness ==
  /\ pc = "checkpoint"
  /\ Len(futures) = 2
  /\ Cardinality(yielded) = 1
  /\ \A i \in 1..Len(futures) : futures[i] = "done"
  /\ Len(results) = target

WorkerStep ==
  /\ futures' # futures
  /\ Len(futures') = Len(futures)
  /\ Len(futures) > 0
  /\ pc' # "stopped"

\* C23: a step of a worker thread changes the state of its own future and
\* nothing else: results, seen_companies and the cursor are untouched by it.
C23_WorkersTouchNothing ==
  [][WorkerStep =>
       UNCHANGED <<results, seen_companies, loc_idx, page, result_keys, disk>>]_vars

\* C23 witness: a worker is running while the control thread has already
\* appended the record of another call of the batch.
C23_Witness ==
  /\ pc = "batch"
  /\ Len(futures) = 2
  /\ Running # {}
  /\ Cardinality(yielded) = 1
  /\ Len(results) = 1

\* C24: at no time more than 5 calls of scrape_one (detail-page fetches) are
\* running, whatever value of --workers was asked for.
C24_AtMostFiveFetches ==
  Cardinality(Running) <= 5

\* C24 witness: five calls are running and two more wait in the queue.
C24_Witness ==
  /\ Cardinality(Running) = 5
  /\ Cardinality({i \in 1..Len(futures) : futures[i] = "queued"}) = 2

\* --------------------------------------------- claims on helper functions
CleanFields == {"first_name", "last_name", "company", "email", "title"}

\* C25: _process_record drops a candidate iff its first_name is empty, or
\* its employee_range is not empty and employee_range_matches rejects it; a
\* candidate with a first_name and no employee_range passes; the dict
\* returned has the fields first_name, last_name, company, email, title, no
\* other, with the values of the candidate.
C25_ProcessRecord ==
  (call_pc = "_process_record" /\ candidate.kind = "record") =>
     /\ cleaned_out = <<>> <=>
          \/ candidate.first_name = ""
          \/ /\ candidate.employee_range # <<>>
             /\ ~employee_range_matches(candidate.employee_range)
     /\ (candidate.first_name # "" /\ candidate.employee_range = <<>>) => cleaned_out # <<>>
     /\ cleaned_out # <<>> =>
          /\ Len(cleaned_out) = 1
          /\ DOMAIN cleaned_out[1] = CleanFields
          /\ cleaned_out[1].first_name = candidate.first_name
          /\ cleaned_out[1].last_name = candidate.last_name
          /\ cleaned_out[1].company = candidate.company
          /\ cleaned_out[1].email = candidate.email
          /\ cleaned_out[1].title = candidate.title

\* C25 witness: a candidate with a first name and an empty employee range
\* came back cleaned.
C25_Witness ==
  /\ call_pc = "_process_record"
  /\ candidate.kind = "record"
  /\ candidate.first_name = "Juan"
  /\ candidate.employee_range = <<>>
  /\ cleaned_out # <<>>

C27_SameRecordSets ==
  (first_run.done /\ pc = "exited") => RecordSet(results) = first_run.records

\* ----------------------------------------------------------- more claims
\* C28: once save_checkpoint has raised, the run is over: scrape() fetches
\* no listing page and no detail page any more and returns no result list.
C28_WriteFailureAborts ==
  /\ [](write_failed => pc = "stopped")
  /\ [][write_failed =>
          (~Listed /\ futures' = futures /\ pc' \notin {"returned", "exited"})]_vars

\* C28 witness: a checkpoint write failed in a run that had submitted a URL,
\* the process is over, and the file of an earlier write is still there.
C28_Witness ==
  /\ write_failed
  /\ pc = "stopped"
  /\ disk.file = "whole"
  /\ \E k \in Keys : dispatch_count[k] = 1

\* C29: at every instant, an abrupt stop during a checkpoint write included,
\* the checkpoint file is absent or holds one whole snapshot, so that a
\* resume always reads a whole snapshot.
C29_FileAbsentOrWhole ==
  disk.file \in {"absent", "whole"}

\* C30: every URL submitted to the pool is fetched to its end, also when the
\* target is met while the batch is aggregated: when the with block is left
\* every call of the batch is done, none was cancelled.
C30_NoCancellation ==
  /\ [](pc = "checkpoint" =>
          (Len(futures) = Len(new_urls)
             /\ \A i \in 1..Len(futures) : futures[i] = "done"))
  /\ [][\A i \in 1..Len(futures) :
          (futures[i] # "done" /\ Len(futures') = Len(futures)) =>
             futures'[i] \in {"queued", "running", "done"}]_vars

\* C30 witness: the target was met at the first result of a batch of two
\* while the second call was still queued; it is running now.
C30_Witness ==
  /\ pc = "join"
  /\ Len(futures) = 2
  /\ Len(results) = target
  /\ yielded = {1}
  /\ futures[2] = "running"
  /\ workers = 1

\* ------------------------------------------ claims on a run on a left file
\* C31: in a run that loaded nothing the number of results never exceeds the
\* target, and scrape() having stopped at the target returns exactly target
\* records; in a run that loaded a state the number never exceeds the larger
\* of the target and the number of loaded records.
C31_CountBounded ==
  pc \in InScrape =>
    /\ ~Resumed => Len(results) <= target
    /\ (~Resumed /\ pc = "returned" /\ Len(results) >= target) => Len(results) = target
    /\ Resumed => \/ Len(results) <= target
                  \/ Len(results) <= Len(Loaded.results)

\* A run that loaded nothing stops in the middle of a batch of two.
C31_Witness ==
  /\ pc = "returned"
  /\ ~Resumed
  /\ target = 1
  /\ Len(results) = 1
  /\ Cardinality(cur_batch) = 2

LoadedMeetsTarget == pc \in InScrape /\ Resumed /\ Len(Loaded.results) >= target

\* C32: a run whose loaded results already meet the target fetches no
\* listing page and no detail page, keeps the loaded results as they are, and
\* its final snapshot holds the loaded results, seen_companies and cursor.
C32_MetTargetIsNoOp ==
  /\ [](LoadedMeetsTarget =>
          /\ results = Loaded.results
          /\ seen_companies = Loaded.seen_companies
          /\ pc = "returned" =>
                /\ disk.file = "whole"
                /\ disk.state.results = Loaded.results
                /\ disk.state.seen_companies = Loaded.seen_companies
                /\ disk.state.location_idx = Loaded.location_idx
                /\ disk.state.page = Loaded.page)
  /\ [][LoadedMeetsTarget => (~Listed /\ dispatch_count' = dispatch_count)]_vars

C32_Witness ==
  /\ pc = "returned"
  /\ Resumed
  /\ Len(Loaded.results) > target
  /\ Loaded.location_idx = 1
  /\ Loaded.page = FirstPage + 1

\* -------------------------------------------------- claims on exhaustion
\* The location was left on the second of two listing pages in a row that
\* linked no company.
LeftOnTwoEmpty ==
  /\ consecutive_empty = 2
  /\ Len(loc_pages) >= 2
  /\ loc_pages[Len(loc_pages)] = loc_pages[Len(loc_pages) - 1] + 1
  /\ zero_new_run >= 2

\* C33: when scrape() returns fewer results than the target, the locations
\* were visited one after the other from the start location to the last one,
\* and each was left only after two listing pages in a row without any URL.
C33_ExhaustedEveryLocation ==
  /\ []((pc \in {"final", "returned"} /\ Len(results) < target) =>
          (loc_idx = NumLocations - 1 /\ LeftOnTwoEmpty))
  /\ [][(pc = "for" /\ pc' = "while") =>
           \/ loc_idx = Unbound /\ loc_idx' = start_loc_idx
           \/ loc_idx # Unbound /\ loc_idx' = loc_idx + 1 /\ LeftOnTwoEmpty]_vars

C33_Witness ==
  /\ pc = "returned"
  /\ Len(results) = 1
  /\ target = 2
  /\ start_loc_idx = 0
  /\ loc_idx = NumLocations - 1

LastNamed(blocks, keywords) ==
  LET idx == {i \in 1..Len(blocks) : blocks[i].label \cap keywords # {}} IN
  IF idx = {} THEN <<>>
  ELSE blocks[CHOOSE i \in idx : \A j \in idx : j <= i].value

Yield1 == LastNamed(soup.info, Keywords1)
Yield2 == LastNamed(soup.pairs, Keywords2)
Yield3 == IF soup.text_names[1] # <<>> THEN soup.text_names[1] ELSE soup.text_names[2]

\* C34: the contact name is what strategy 1 yields when that is not empty,
\* else what strategy 2 yields when that is not empty, else what strategy 3
\* yields; first_name and last_name are parse_name of it, and first_name is
\* empty when the three yield nothing.
C34_Cascade ==
  name_pc = "scrape_company" =>
    LET name == IF Yield1 # <<>> THEN Yield1
                ELSE IF Yield2 # <<>> THEN Yield2
                ELSE Yield3
    IN
    /\ <<scraped.first_name, scraped.last_name>> = parse_name(name)
    /\ (Yield1 = <<>> /\ Yield2 = <<>> /\ Yield3 = <<>>) => scraped.first_name = ""

C34_Witness ==
  /\ name_pc = "scrape_company"
  /\ Yield1 = <<"Juan", Sp, "Cruz,", Sp, "Jr.">>
  /\ Yield2 = <<"Dr.", Sp, "Aviv">>
  /\ Yield3 = <<"Juan", Sp, "Aviv">>
  /\ scraped.first_name = "Juan"
  /\ scraped.last_name = <<"Cruz">>

\* ------------------------------------------------ claims on digit-free text
DigitFree(text) == FindNumbers(text) = <<>>

\* C36: every literal of VALID_EMPLOYEE_RANGES holds a digit, so
\* employee_range_matches is false on every text without a digit, and
\* _process_record drops every candidate whose employee_range is such a text
\* and is not empty.
C36_DigitFreeDropped ==
  /\ \A literal \in VALID_EMPLOYEE_RANGES : ~DigitFree(literal)
  /\ (call_pc = "employee_range_matches" /\ DigitFree(emp_text)) => ~matches
  /\ (call_pc = "_process_record" /\ candidate.employee_range # <<>>
        /\ DigitFree(candidate.employee_range)) => cleaned_out = <<>>

C36_Witness ==
  /\ call_pc = "_process_record"
  /\ candidate.first_name = "Juan"
  /\ candidate.employee_range = <<Word, Dash, Word>>
  /\ cleaned_out = <<>>

\* ------------------------------------------- claims on the campaign scripts
IsCreate(req) == req.method = "POST" /\ req.path = "/campaigns"
IsSteps(req) == req.method = "POST" /\ req.path = "/campaigns/{id}/sequence-steps"
IsAuth(req) == req.method = "GET" /\ req.path = "/users"

\* C37: in both scripts the campaign-creation POST is sent only after the
\* authentication GET returned a non-empty result, a sequence-steps POST only
\* after the creation returned a campaign id, and a failed authentication or
\* creation ends the script with status 1 and no request after it.
C37_RequestsOrdered ==
  /\ [](\A i \in 1..Len(sent) :
          /\ IsCreate(sent[i]) =>
                /\ me \notin {"unset", "empty"}
                /\ \E j \in 1..(i - 1) : IsAuth(sent[j])
          /\ IsSteps(sent[i]) =>
                /\ result = "id"
                /\ campaign_id # 0
                /\ sent[i].id = campaign_id
                /\ \E j \in 1..(i - 1) : IsCreate(sent[j]))
  /\ []((me = "empty" \/ result \in {"empty", "list", "no_id"}) =>
          (camp_pc = "exited" /\ exit_status = 1))
  /\ [][camp_pc = "exited" => sent' = sent]_vars

C37_Witness ==
  /\ script = "visibl"
  /\ camp_pc = "exited"
  /\ exit_status = 0
  /\ Len(SelectSeq(sent, IsSteps)) > 3
  /\ Len(SelectSeq(sent, IsCreate)) > 1

====
